---- MODULE Spec2Model ----
(***************************************************************************)
(* Model of the tempo-estimation pipeline of bpm_detector (src/src/lib.rs):*)
(* BpmDetector::detect_from_samples, the analyzer and selector working on  *)
(* an energy envelope, and BpmDetector::detect_from_file, the decode loop  *)
(* that builds the envelope and hands it to detect_from_samples.           *)
(*                                                                         *)
(* Numbers.  An f32 is modelled as an exact rational <<n, d>> in lowest    *)
(* terms with d > 0, or as NaN == <<0, 0>>.  Rounding error of the f32     *)
(* operations is not modelled; f32::round (half away from zero) and the    *)
(* saturating cast `as usize` are.  The inputs keep every intermediate     *)
(* value finite or NaN: sample rates, hop sizes and BPM bounds are         *)
(* positive and energies are non-negative, so no infinity arises.  Where   *)
(* two values are exactly equal as rationals (a score ratio of exactly     *)
(* 0.1, two equal mean products) the f32 roundings of the code may order   *)
(* them either way; the model compares the exact values.                   *)
(***************************************************************************)
EXTENDS Integers, Sequences, FiniteSets, TLC

VARIABLES
    pc,           \* position: "file" | "loop" | "call" | "done"
    config,       \* self.config (BpmConfig)
    sample_rate,  \* the sample rate handed to detect_from_samples
    energies,     \* the energy envelope
    min_frames,   \* locals of detect_from_samples, as last computed
    max_frames,
    autocorr,
    candidates,
    best,
    result,       \* the value the entry point returned
    frame,        \* detect_from_file: the sliding sample buffer
    npackets,     \* detect_from_file: packets read so far
    lastPacket,   \* detect_from_file: the packet decoded last
    pushed        \* detect_from_file: the samples pushed for lastPacket

vars == <<pc, config, sample_rate, energies, min_frames, max_frames, autocorr,
          candidates, best, result, frame, npackets, lastPacket, pushed>>

(***************************************************************************)
(* f32 arithmetic on exact rationals                                       *)
(***************************************************************************)
Abs(x) == IF x < 0 THEN -x ELSE x

RECURSIVE GCD(_, _)
GCD(a, b) == IF b = 0 THEN a ELSE GCD(b, a % b)

Rat(n, d) ==
    LET g == GCD(Abs(n), Abs(d))
        s == IF d < 0 THEN -1 ELSE 1
    IN  <<(s * n) \div g, (s * d) \div g>>

F(n) == <<n, 1>>

NaN == <<0, 0>>

IsNaN(x) == x[2] = 0

FAdd(a, b) ==
    IF IsNaN(a) \/ IsNaN(b) THEN NaN
    ELSE Rat(a[1] * b[2] + b[1] * a[2], a[2] * b[2])

FSub(a, b) ==
    IF IsNaN(a) \/ IsNaN(b) THEN NaN
    ELSE Rat(a[1] * b[2] - b[1] * a[2], a[2] * b[2])

FMul(a, b) ==
    IF IsNaN(a) \/ IsNaN(b) THEN NaN
    ELSE Rat(a[1] * b[1], a[2] * b[2])

\* 0.0 / 0.0 is NaN; a nonzero dividend over zero does not arise (see above).
FDiv(a, b) ==
    IF IsNaN(a) \/ IsNaN(b) \/ b[1] = 0 THEN NaN
    ELSE Rat(a[1] * b[2], a[2] * b[1])

FAbs(a) == <<Abs(a[1]), a[2]>>

\* Every comparison with a NaN operand is false.
FGt(a, b) == ~IsNaN(a) /\ ~IsNaN(b) /\ a[1] * b[2] > b[1] * a[2]

FLt(a, b) == FGt(b, a)

FGe(a, b) == ~IsNaN(a) /\ ~IsNaN(b) /\ a[1] * b[2] >= b[1] * a[2]

FLe(a, b) == FGe(b, a)

\* f32::max: the other operand when one is NaN.
FMax(a, b) == IF IsNaN(a) THEN b ELSE IF IsNaN(b) THEN a ELSE IF FGt(b, a) THEN b ELSE a

\* f32::round: to the nearest integer, halves away from zero.
Round(a) ==
    IF a[1] >= 0 THEN (2 * a[1] + a[2]) \div (2 * a[2])
    ELSE -((2 * (-a[1]) + a[2]) \div (2 * a[2]))

\* `x.round() as usize`: NaN and negative values cast to 0.
RoundAsUsize(a) == IF IsNaN(a) THEN 0 ELSE IF Round(a) < 0 THEN 0 ELSE Round(a)

(***************************************************************************)
(* Configuration                                                           *)
(***************************************************************************)
FFT_SIZE == 2048

HOP_SIZE == FFT_SIZE \div 2

MIN_BPM == 60

MAX_BPM == 180

MIN_FREQUENCY == 50

MAX_FREQUENCY == 1000

AUTOCORR_THRESHOLD == <<1, 20>>

DefaultConfig ==
    [fft_size |-> FFT_SIZE, hop_size |-> HOP_SIZE,
     min_frequency |-> F(MIN_FREQUENCY), max_frequency |-> F(MAX_FREQUENCY),
     min_bpm |-> F(MIN_BPM), max_bpm |-> F(MAX_BPM),
     autocorr_threshold |-> AUTOCORR_THRESHOLD]

\* The custom configuration of examples/basic_usage.rs.
CustomConfig ==
    [DefaultConfig EXCEPT !.min_frequency = F(40), !.max_frequency = F(150),
                          !.min_bpm = F(80), !.max_bpm = F(160),
                          !.autocorr_threshold = <<1, 10>>]

\* The default configuration with a narrowed BPM range.
NarrowConfig == [DefaultConfig EXCEPT !.min_bpm = F(80), !.max_bpm = F(120)]

(***************************************************************************)
(* Results                                                                 *)
(***************************************************************************)
Res(kind, bpm, min, max) == [kind |-> kind, bpm |-> bpm, min |-> min, max |-> max]

None == Res("None", NaN, NaN, NaN)

Ok(bpm) == Res("Ok", bpm, NaN, NaN)

FileNotFound == Res("FileNotFound", NaN, NaN, NaN)

UnsupportedFormat == Res("UnsupportedFormat", NaN, NaN, NaN)

InsufficientData == Res("InsufficientData", NaN, NaN, NaN)

NoValidBpm(min, max) == Res("NoValidBpm", NaN, min, max)

\* The call aborted: a panic (arithmetic overflow in a checked build, an index
\* or slice out of range in every build).
Panic == Res("Panic", NaN, NaN, NaN)

(***************************************************************************)
(* detect_from_samples, stage by stage                                     *)
(***************************************************************************)
\* Variants of the length guard: an off-by-one bound, and a guard that lets
\* the empty envelope through.
TooShortLen2(e) == Len(e) < 2

TooShortNonEmpty(e) == Len(e) > 0 /\ Len(e) < 3

\* energies.len() < 3
TooShort(e) == Len(e) < 3

\* energies.iter().fold(0.0, |a, &b| a.max(b))
RECURSIVE FoldMax(_, _)
FoldMax(acc, e) == IF e = <<>> THEN acc ELSE FoldMax(FMax(acc, Head(e)), Tail(e))

MaxEnergyOf(e) == FoldMax(F(0), e)

\* energies.iter().map(|&e| e / max_energy)
RECURSIVE DivideAll(_, _)
DivideAll(e, m) == IF e = <<>> THEN <<>> ELSE <<FDiv(Head(e), m)>> \o DivideAll(Tail(e), m)

Normalize(e) == DivideAll(e, MaxEnergyOf(e))

SecondsPerFrame(cfg, sr) == FDiv(F(cfg.hop_size), F(sr))

MinFrames(cfg, sr) ==
    RoundAsUsize(FDiv(FDiv(cfg.min_bpm, cfg.max_bpm), SecondsPerFrame(cfg, sr)))

MaxFrames(cfg, sr) ==
    RoundAsUsize(FDiv(FDiv(cfg.max_bpm, cfg.min_bpm), SecondsPerFrame(cfg, sr)))

\* The inner loop for one lag: sum of normalized[i] * normalized[i + lag] for
\* i in 0..count (the envelope is a 1-based sequence here, so entry i is n[i+1]).
RECURSIVE LagSum(_, _, _, _)
LagSum(n, lag, i, count) ==
    IF i >= count THEN F(0)
    ELSE FAdd(FMul(n[i + 1], n[i + lag + 1]), LagSum(n, lag, i + 1, count))

\* `normalized.len() - lag` goes below zero for some lag of the loop.
LagUnderflows(n, minf, maxf) == \E lag \in minf..(maxf - 1) : lag > Len(n)

\* autocorr[lag] after the loop: 0.0 as vec![0.0; max_frames] set it for a lag
\* below min_frames or with count = 0, else sum / count.
AutocorrAt(n, minf, lag) ==
    IF lag < minf \/ Len(n) - lag <= 0 THEN F(0)
    ELSE FDiv(LagSum(n, lag, 0, Len(n) - lag), F(Len(n) - lag))

\* The autocorrelogram as a sequence: autocorr[lag] is entry lag + 1.
RECURSIVE AutocorrFrom(_, _, _, _)
AutocorrFrom(n, minf, maxf, lag) ==
    IF lag >= maxf THEN <<>>
    ELSE <<AutocorrAt(n, minf, lag)>> \o AutocorrFrom(n, minf, maxf, lag + 1)

Autocorr(n, minf, maxf) == AutocorrFrom(n, minf, maxf, 0)

\* autocorr[i]
At(a, i) == a[i + 1]

IsPeak(a, thr, i) ==
    FGt(At(a, i), thr) /\ FGt(At(a, i), At(a, i - 1)) /\ FGt(At(a, i), At(a, i + 1))

\* for i in 1..autocorr.len() - 1: the (lag, score) pairs, in lag order.
RECURSIVE PeaksFrom(_, _, _)
PeaksFrom(a, thr, i) ==
    IF i >= Len(a) - 1 THEN <<>>
    ELSE (IF IsPeak(a, thr, i) THEN <<<<i, At(a, i)>>>> ELSE <<>>)
         \o PeaksFrom(a, thr, i + 1)

Peaks(a, thr) == PeaksFrom(a, thr, 1)

\* peaks.sort_by(|a, b| b.1.partial_cmp(&a.1).unwrap()): a stable sort by
\* descending score (equal scores keep their lag order).
RECURSIVE InsertPeak(_, _)
InsertPeak(s, p) ==
    IF s = <<>> THEN <<p>>
    ELSE IF FGt(p[2], Head(s)[2]) THEN <<p>> \o s
    ELSE <<Head(s)>> \o InsertPeak(Tail(s), p)

RECURSIVE SortPeaks(_)
SortPeaks(peaks) ==
    IF peaks = <<>> THEN <<>>
    ELSE InsertPeak(SortPeaks(SubSeq(peaks, 1, Len(peaks) - 1)), peaks[Len(peaks)])

Take(s, k) == SubSeq(s, 1, IF Len(s) < k THEN Len(s) ELSE k)

\* bpm = min_bpm / (lag * seconds_per_frame)
LagToBpm(cfg, sr, lag) == FDiv(cfg.min_bpm, FMul(F(lag), SecondsPerFrame(cfg, sr)))

InRange(cfg, bpm) == FGe(bpm, cfg.min_bpm) /\ FLe(bpm, cfg.max_bpm)

\* for (lag, magnitude) in peaks.iter().take(5): the (bpm, magnitude) pairs in range.
RECURSIVE CandidatesOf(_, _, _)
CandidatesOf(cfg, sr, s) ==
    IF s = <<>> THEN <<>>
    ELSE LET bpm == LagToBpm(cfg, sr, Head(s)[1])
         IN  (IF InRange(cfg, bpm) THEN <<<<bpm, Head(s)[2]>>>> ELSE <<>>)
             \o CandidatesOf(cfg, sr, Tail(s))

Candidates(cfg, sr, sorted) == CandidatesOf(cfg, sr, Take(sorted, 5))

\* A variant of the selector that prefers candidate 2 on near scores alone.
SelectBestNoBpmTest(c) ==
    IF Len(c) >= 2 /\ FLt(FDiv(FAbs(FSub(c[1][2], c[2][2])), c[1][2]), <<1, 10>>)
    THEN c[2] ELSE c[1]

\* candidates[1] when candidates.len() >= 2 and
\* (mag1 - mag2).abs() / mag1 < 0.1 && bpm2 > bpm1, else candidates[0].
SelectBest(c) ==
    IF Len(c) >= 2
       /\ FLt(FDiv(FAbs(FSub(c[1][2], c[2][2])), c[1][2]), <<1, 10>>)
       /\ FGt(c[2][1], c[1][1])
    THEN c[2] ELSE c[1]

\* A variant of the quantization that leaves out the rounding.
QuantizeNoRound(bpm) == FDiv(FMul(bpm, F(2)), F(2))

\* (best_bpm * 2.0).round() / 2.0
Quantize(bpm) == FDiv(F(Round(FMul(bpm, F(2)))), F(2))

NoLocals ==
    [min_frames |-> 0, max_frames |-> 0, autocorr |-> <<>>, candidates |-> <<>>,
     best |-> <<NaN, NaN>>]

\* The whole of detect_from_samples: its return value and the locals it computed.
Detect(e, sr, cfg) ==
    IF TooShort(e) THEN NoLocals @@ [result |-> InsufficientData]
    ELSE
    LET n    == Normalize(e)
        minf == MinFrames(cfg, sr)
        maxf == MaxFrames(cfg, sr)
        lags == [NoLocals EXCEPT !.min_frames = minf, !.max_frames = maxf]
    IN  IF LagUnderflows(n, minf, maxf) \/ maxf = 0
        THEN lags @@ [result |-> Panic]
        ELSE
        LET a == Autocorr(n, minf, maxf)
            c == Candidates(cfg, sr, SortPeaks(Peaks(a, cfg.autocorr_threshold)))
            found == [lags EXCEPT !.autocorr = a, !.candidates = c]
        IN  IF c = <<>>
            THEN found @@ [result |-> NoValidBpm(cfg.min_bpm, cfg.max_bpm)]
            ELSE [found EXCEPT !.best = SelectBest(c)]
                 @@ [result |-> Ok(Quantize(SelectBest(c)[1]))]

(***************************************************************************)
(* Inputs of detect_from_samples                                           *)
(***************************************************************************)
MaxLen == 4

MaxEnergy == 2

MaxPeriod == 8

MaxPulseLen == 26

Configs == {DefaultConfig, CustomConfig, NarrowConfig}

\* With the default hop of 1024 samples: 8, 1/2, 2/5, 1/4 and 1/8 second per hop.
SampleRates == {128, 2048, 2560, 4096, 8192}

\* Every envelope of at most MaxLen energies in 0..MaxEnergy.
ShortEnvelopes == UNION {[1..k -> {F(v) : v \in 0..MaxEnergy}] : k \in 0..MaxLen}

\* A pulse every P hops, starting at hop `phase`, of height hi over a floor lo.
PulseTrain(P, len, phase, hi, lo) ==
    [i \in 1..len |-> IF (i - 1) % P = phase THEN F(hi) ELSE F(lo)]

\* Trains whose first pulse is at hop 0 or at hop P - 1.
PulseTrains ==
    {PulseTrain(P, len, ph * (P - 1), MaxEnergy, lo) :
        P \in 1..MaxPeriod, len \in 3..MaxPulseLen, ph \in 0..1,
        lo \in 0..(MaxEnergy - 1)}

ConstantEnvelopes == {[i \in 1..len |-> F(v)] : len \in 0..MaxPulseLen, v \in 0..MaxEnergy}

Envelopes == ShortEnvelopes \cup PulseTrains \cup ConstantEnvelopes

(***************************************************************************)
(* The state machine                                                       *)
(***************************************************************************)
InitLocals ==
    /\ min_frames = 0
    /\ max_frames = 0
    /\ autocorr = <<>>
    /\ candidates = <<>>
    /\ best = <<NaN, NaN>>
    /\ result = None

InitFile ==
    /\ frame = <<>>
    /\ npackets = 0
    /\ lastPacket = <<>>
    /\ pushed = <<>>

\* A caller about to call detect_from_samples(&energies, sample_rate).
Init ==
    /\ pc = "call"
    /\ config \in Configs
    /\ sample_rate \in SampleRates
    /\ energies \in Envelopes
    /\ InitLocals
    /\ InitFile

\* detect_from_samples(energies, sample_rate) runs to its return (or aborts).
Returns(e, sr) ==
    \E d \in {Detect(e, sr, config)} :
        /\ min_frames' = d.min_frames
        /\ max_frames' = d.max_frames
        /\ autocorr' = d.autocorr
        /\ candidates' = d.candidates
        /\ best' = d.best
        /\ result' = d.result

DetectFromSamples ==
    /\ pc = "call"
    /\ Returns(energies, sample_rate)
    /\ pc' = "done"
    /\ UNCHANGED <<config, sample_rate, energies, frame, npackets, lastPacket, pushed>>

Next == DetectFromSamples

Spec == Init /\ [][Next]_vars

(***************************************************************************)
(* detect_from_file                                                        *)
(*                                                                         *)
(* The decoder is the environment: it decides whether the file opens and   *)
(* probes, which sample rate the track has and which packets follow.  The  *)
(* transform is modelled exactly for a window of 2 samples, so the file    *)
(* configuration has fft_size = 2 and hop_size = fft_size / 2 = 1.         *)
(***************************************************************************)
MaxPackets == 2

\* A 2-sample window, 1-sample hop, band 1-2 Hz, and the BPM range and
\* threshold of examples/basic_usage.rs.
FileConfig ==
    [fft_size |-> 2, hop_size |-> 1,
     min_frequency |-> F(1), max_frequency |-> F(2),
     min_bpm |-> F(80), max_bpm |-> F(160), autocorr_threshold |-> <<1, 10>>]

\* Track sample rates: 1/2 and 1/4 second per hop.
FileSampleRates == {2, 4}

\* What File::open, the probe, default_track, the codec registry and
\* codec_params.sample_rate answer.
Environments == {"missing", "unprobed", "no_track", "no_codec", "no_rate", "ok"}

Formats == {"F32", "S16", "U8", "S24"}

\* Raw sample values a decoded buffer holds, per format.
RawValues(fmt) ==
    CASE fmt = "F32" -> {0, 1}
      [] fmt = "S16" -> {0, 32767}
      [] fmt = "U8"  -> {0, 128}
      [] OTHER       -> {0}

ChannelCounts == {1, 2}

FrameCounts == {1, 2}

\* A packet: whether it decodes, the buffer's format, and its frames, each a
\* tuple of one raw value per channel.
Packets ==
    {[decodes |-> FALSE, fmt |-> "F32", frames |-> <<>>]}
    \cup
    UNION {UNION {{[decodes |-> TRUE, fmt |-> fmt, frames |-> fr] :
                     fr \in [1..nf -> [1..nc -> RawValues(fmt)]]} :
                  nf \in FrameCounts, nc \in ChannelCounts} :
           fmt \in Formats}

\* A raw value as the f32 the extractor works with.
ToSample(fmt, raw) ==
    CASE fmt = "F32" -> F(raw)
      [] fmt = "S16" -> FDiv(F(raw), F(32767))
      [] fmt = "U8"  -> FDiv(FSub(F(raw), F(128)), F(128))

\* The sample pushed for one frame: buf.chan(0)[frame_idx], converted.
FrameSample(fmt, fr) == ToSample(fmt, fr[1])

\* The forward real transform of a 2-sample window: fft_size / 2 + 1 = 2 bins,
\* as <<re, im>> pairs.
Spectrum(input) ==
    << <<FAdd(input[1], input[2]), F(0)>>, <<FSub(input[1], input[2]), F(0)>> >>

NormSqr(c) == FAdd(FMul(c[1], c[1]), FMul(c[2], c[2]))

LowBin(cfg, sr) ==
    RoundAsUsize(FDiv(cfg.min_frequency, FDiv(F(sr), F(cfg.fft_size))))

HighBin(cfg, sr) ==
    RoundAsUsize(FDiv(cfg.max_frequency, FDiv(F(sr), F(cfg.fft_size))))

\* spectrum[low_bin..high_bin] is out of range.
BandOutOfRange(cfg, sr) ==
    LowBin(cfg, sr) > HighBin(cfg, sr) \/ HighBin(cfg, sr) > cfg.fft_size \div 2 + 1

\* The sum of norm_sqr over spectrum[low_bin..high_bin] (bin b is entry b + 1).
BandEnergy(cfg, sr, input) ==
    LET sp == Spectrum(input)
        sum[b \in LowBin(cfg, sr)..HighBin(cfg, sr)] ==
            IF b = LowBin(cfg, sr) THEN F(0) ELSE FAdd(sum[b - 1], NormSqr(sp[b]))
    IN  sum[HighBin(cfg, sr)]

\* frame.push(sample), and with a full window: the band energy is appended
\* to energies and the window advances by hop_size.
PushSample(st, cfg, sr, sample) ==
    LET fr == Append(st.frame, sample)
    IN  IF st.panic \/ Len(fr) < cfg.fft_size
        THEN [st EXCEPT !.frame = IF st.panic THEN st.frame ELSE fr]
        ELSE IF BandOutOfRange(cfg, sr)
        THEN [st EXCEPT !.panic = TRUE]
        ELSE [st EXCEPT
                !.energies = Append(st.energies,
                                    BandEnergy(cfg, sr, SubSeq(fr, 1, cfg.fft_size))),
                !.frame = SubSeq(fr, cfg.hop_size + 1, Len(fr))]

\* for frame_idx in 0..buf.frames()
RECURSIVE PushFrames(_, _, _, _, _)
PushFrames(st, cfg, sr, fmt, frames) ==
    IF frames = <<>> THEN st
    ELSE PushFrames(PushSample(st, cfg, sr, FrameSample(fmt, Head(frames))),
                    cfg, sr, fmt, Tail(frames))

\* The samples pushed for a packet's frames, in order.
PushedSamples(fmt, frames) == [i \in 1..Len(frames) |-> FrameSample(fmt, frames[i])]

\* A caller about to call detect_from_file(path).
InitFromFile ==
    /\ pc = "file"
    /\ config = FileConfig
    /\ sample_rate = 0
    /\ energies = <<>>
    /\ InitLocals
    /\ InitFile

\* File::open, the probe, the track, the decoder and the sample rate: the
\* first failure returns; otherwise the decode loop starts.
OpenAndProbe ==
    /\ pc = "file"
    /\ \E env \in Environments, sr \in FileSampleRates :
         IF env = "ok"
         THEN /\ pc' = "loop"
              /\ sample_rate' = sr
              /\ UNCHANGED result
         ELSE /\ pc' = "done"
              /\ result' = IF env = "missing" THEN FileNotFound ELSE UnsupportedFormat
              /\ UNCHANGED sample_rate
    /\ UNCHANGED <<config, energies, min_frames, max_frames, autocorr, candidates,
                   best, frame, npackets, lastPacket, pushed>>

\* One turn of `while let Ok(packet) = format.next_packet()`: the packet is
\* decoded and, for a buffer of a known format, every frame is pushed.  A
\* buffer of any other format is skipped.  (r2c.process cannot fail here: the
\* input and spectrum vectors come from the plan itself.)
DecodePacket ==
    /\ pc = "loop"
    /\ npackets < MaxPackets
    /\ \E packet \in Packets :
         /\ npackets' = npackets + 1
         /\ lastPacket' = packet
         /\ IF ~packet.decodes
            THEN /\ pc' = "done"
                 /\ result' = UnsupportedFormat
                 /\ pushed' = <<>>
                 /\ UNCHANGED <<frame, energies>>
            ELSE IF packet.fmt \notin {"F32", "S16", "U8"}
            THEN /\ pushed' = <<>>
                 /\ UNCHANGED <<pc, result, frame, energies>>
            ELSE \E st \in {PushFrames([frame |-> frame, energies |-> energies,
                                         panic |-> FALSE],
                                        config, sample_rate, packet.fmt, packet.frames)} :
                 /\ frame' = st.frame
                 /\ energies' = st.energies
                 /\ pushed' = PushedSamples(packet.fmt, packet.frames)
                 /\ pc' = IF st.panic THEN "done" ELSE "loop"
                 /\ result' = IF st.panic THEN Panic ELSE result
    /\ UNCHANGED <<config, sample_rate, min_frames, max_frames, autocorr, candidates, best>>

\* next_packet fails or the stream ends: the loop exits and the envelope goes
\* to detect_from_samples, whose result is returned.
EndOfStream ==
    /\ pc = "loop"
    /\ Returns(energies, sample_rate)
    /\ pc' = "done"
    /\ UNCHANGED <<config, sample_rate, energies, frame, npackets, lastPacket, pushed>>

NextFile == OpenAndProbe \/ DecodePacket \/ EndOfStream

SpecFile == InitFromFile /\ [][NextFile]_vars

(***************************************************************************)
(* Properties of detect_from_samples (checked under Spec)                  *)
(***************************************************************************)
Returned == pc = "done"

AllEqualTo(e, v) == \A i \in 1..Len(e) : e[i] = v

\* The envelope is a pulse train of period P over a zero floor.
IsPulseTrain(e, P) ==
    \E phase \in 0..(P - 1), hi \in 1..MaxEnergy : e = PulseTrain(P, Len(e), phase, hi, 0)

\* 60 / (P * hop_length / sample_rate)
TempoOfLag(cfg, sr, P) == FDiv(F(60), FMul(F(P), SecondsPerFrame(cfg, sr)))

\* |a - b| <= 1/2
WithinHalf(a, b) == FLe(FAbs(FSub(a, b)), <<1, 2>>)

\* C1: with the default configuration, a pulse train of period P whose tempo
\* 60 / (P * hop_length / sample_rate) lies in 60..180 is detected as Ok(bpm)
\* with bpm within 0.5 of that tempo.  Stated for trains at least max_frames
\* long, so that every lag of the analyzer fits the envelope.
C1_PulseTrainDetected ==
    \A P \in 2..MaxPeriod :
        (/\ Returned
         /\ config = DefaultConfig
         /\ Len(energies) >= MaxFrames(config, sample_rate)
         /\ Len(energies) >= 3
         /\ IsPulseTrain(energies, P)
         /\ FGe(TempoOfLag(config, sample_rate, P), F(MIN_BPM))
         /\ FLe(TempoOfLag(config, sample_rate, P), F(MAX_BPM)))
        => /\ result.kind = "Ok"
           /\ WithinHalf(result.bpm, TempoOfLag(config, sample_rate, P))

\* C2: an envelope of fewer than 3 entries makes detect_from_samples return
\* InsufficientData, for every configuration and sample rate, before any lag,
\* autocorrelogram or candidate is computed.
C2_ShortEnvelopeInsufficient ==
    (Returned /\ Len(energies) < 3)
    => /\ result = InsufficientData
       /\ min_frames = 0 /\ max_frames = 0
       /\ autocorr = <<>> /\ candidates = <<>>

C2_Witness == Returned /\ Len(energies) = 2 /\ result = InsufficientData

\* C3: an all-zero envelope of 3 or more entries makes detect_from_samples
\* return InsufficientData.  Stated for envelopes at least max_frames long, so
\* that every lag of the analyzer fits the envelope.
C3_AllZeroInsufficient ==
    (/\ Returned
     /\ Len(energies) >= 3
     /\ Len(energies) >= MaxFrames(config, sample_rate)
     /\ MaxFrames(config, sample_rate) > 0
     /\ AllEqualTo(energies, F(0)))
    => result = InsufficientData

\* C4: an envelope of 3 or more entries that all equal one positive number
\* makes detect_from_samples return NoValidBpm{min_bpm, max_bpm}.  Stated for
\* envelopes in which no lag of the analyzer exceeds the envelope's length.
C4_FlatEnvelopeNoValidBpm ==
    (/\ Returned
     /\ Len(energies) >= 3
     /\ Len(energies) >= MaxFrames(config, sample_rate) - 1
     /\ MaxFrames(config, sample_rate) > 0
     /\ \E v \in 1..MaxEnergy : AllEqualTo(energies, F(v)))
    => result = NoValidBpm(config.min_bpm, config.max_bpm)

\* x is an exact multiple of 0.5.
IsHalfMultiple(x) == ~IsNaN(x) /\ (2 * x[1]) % x[2] = 0

\* C5: every Ok value is an exact multiple of 0.5 and is the selected
\* candidate's BPM rounded to the nearest 0.5: no other multiple of 0.5 is
\* nearer to it, and a tie goes to the larger one.
C5_Quantized ==
    (Returned /\ result.kind = "Ok")
    => /\ IsHalfMultiple(result.bpm)
       /\ FLe(FAbs(FSub(result.bpm, best[1])), <<1, 4>>)
       /\ FSub(best[1], result.bpm) # <<1, 4>>

C5_Witness ==
    Returned /\ result.kind = "Ok" /\ ~IsHalfMultiple(best[1]) /\ IsHalfMultiple(result.bpm)

\* |score1 - score2| / score1 < 0.1, for positive scores, without division.
ScoresNear(s1, s2) ==
    10 * Abs(s1[1] * s2[2] - s2[1] * s1[2]) * s1[2] < s1[1] * s1[2] * s2[2]

\* C6: candidates are the in-range peaks by descending score; the selector
\* returns candidate 2 exactly when |score1 - score2| / score1 < 0.1 and
\* bpm2 > bpm1, candidate 1 in every other case, and never a later candidate.
C6_OctaveBias ==
    (Returned /\ result.kind = "Ok")
    => /\ Len(candidates) >= 1
       /\ \A i \in 1..Len(candidates) :
            /\ InRange(config, candidates[i][1])
            /\ \A j \in i..Len(candidates) : FGe(candidates[i][2], candidates[j][2])
       /\ IF /\ Len(candidates) >= 2
             /\ ScoresNear(candidates[1][2], candidates[2][2])
             /\ FGt(candidates[2][1], candidates[1][1])
          THEN best = candidates[2]
          ELSE best = candidates[1]
       /\ WithinHalf(result.bpm, best[1])

\* Candidate 2 is preferred while a third candidate exists.
C6_Witness ==
    /\ Returned /\ result.kind = "Ok"
    /\ Len(candidates) >= 3
    /\ best = candidates[2]
    /\ best # candidates[1]

\* hop <= window and min_bpm < max_bpm.
ValidConfig(cfg) == cfg.hop_size <= cfg.fft_size /\ FLt(cfg.min_bpm, cfg.max_bpm)

\* C9: for an envelope of 3 or more entries, a positive sample rate and a
\* valid configuration, detect_from_samples returns Ok or a typed failure: no
\* subtraction goes below zero and no index is out of range.
C9_NeverAborts ==
    (Returned /\ Len(energies) >= 3 /\ sample_rate > 0 /\ ValidConfig(config))
    => result.kind \in {"Ok", "InsufficientData", "NoValidBpm"}

\* The canonical lags: round((60 / bpm) / seconds_per_hop).
CanonicalLag(cfg, sr, bpm) == RoundAsUsize(FDiv(FDiv(F(60), bpm), SecondsPerFrame(cfg, sr)))

\* C10: the analyzer scans the canonical lag range: min_lag is the lag of
\* max_bpm, max_lag the lag of min_bpm, and the autocorrelogram has max_lag
\* entries.
C10_CanonicalLagRange ==
    (Returned /\ Len(energies) >= 3)
    => /\ min_frames = CanonicalLag(config, sample_rate, config.max_bpm)
       /\ max_frames = CanonicalLag(config, sample_rate, config.min_bpm)
       /\ (result.kind \in {"Ok", "NoValidBpm"} => Len(autocorr) = max_frames)

(***************************************************************************)
(* Properties of detect_from_file (checked under SpecFile)                 *)
(***************************************************************************)
\* The decoder supplied a sample rate and the first next_packet call failed.
NoFramesDecoded == Returned /\ sample_rate \in FileSampleRates /\ npackets = 0

\* C7 as stated: with a sample rate but no decodable frames, detect_from_file
\* fails with UnsupportedFormat.
C7_NoFramesUnsupported == NoFramesDecoded => result = UnsupportedFormat

\* C7 as amended: with a sample rate but no decodable frames, the empty
\* envelope reaches detect_from_samples and detect_from_file fails with
\* InsufficientData.
C7_NoFramesInsufficient == NoFramesDecoded => result = InsufficientData

C7_Witness == NoFramesDecoded /\ energies = <<>> /\ result = InsufficientData

\* The average of a frame's samples over all its channels.
ChannelAverage(fmt, fr) ==
    LET sum[c \in 0..Len(fr)] ==
            IF c = 0 THEN F(0) ELSE FAdd(sum[c - 1], ToSample(fmt, fr[c]))
    IN  FDiv(sum[Len(fr)], F(Len(fr)))

\* C8: for every frame of a decoded F32, S16 or U8 buffer with more than one
\* channel, the sample pushed into the sliding buffer is the average of the
\* frame's samples over all channels.
C8_ChannelsAveraged ==
    (/\ lastPacket # <<>>
     /\ lastPacket.decodes
     /\ lastPacket.fmt \in {"F32", "S16", "U8"})
    => /\ Len(pushed) = Len(lastPacket.frames)
       /\ \A i \in 1..Len(pushed) :
            Len(lastPacket.frames[i]) > 1
            => pushed[i] = ChannelAverage(lastPacket.fmt, lastPacket.frames[i])

(***************************************************************************)
(* Properties of the peak-to-BPM conversion (checked under Spec)           *)
(***************************************************************************)
\* The at most 5 highest-scoring peaks of the autocorrelogram, as (lag, score).
TopPeaks == Take(SortPeaks(Peaks(autocorr, config.autocorr_threshold)), 5)

\* The top peaks whose tempo 60 / (L * seconds_per_hop) lies in
\* [min_bpm, max_bpm], as (bpm, score) pairs in score order.
CanonicalCandidates ==
    LET conv[i \in 0..Len(TopPeaks)] ==
            IF i = 0 THEN <<>>
            ELSE LET bpm == TempoOfLag(config, sample_rate, TopPeaks[i][1])
                 IN  IF InRange(config, bpm)
                     THEN Append(conv[i - 1], <<bpm, TopPeaks[i][2]>>)
                     ELSE conv[i - 1]
    IN  conv[Len(TopPeaks)]

\* C11: for every configuration, each of the at most 5 highest-scoring peaks
\* at lag L is converted with bpm = 60 / (L * seconds_per_hop) and kept exactly
\* when min_bpm <= bpm <= max_bpm; every Ok result is the quantization of
\* 60 / (L * seconds_per_hop) for a detected peak lag L, and the call fails
\* with NoValidBpm when no peak converts into the range.
C11_CanonicalConversion ==
    (Returned /\ result.kind \in {"Ok", "NoValidBpm"})
    => /\ candidates = CanonicalCandidates
       /\ result.kind = "Ok" =>
            \E i \in 1..Len(TopPeaks) :
                LET bpm == TempoOfLag(config, sample_rate, TopPeaks[i][1])
                IN  InRange(config, bpm) /\ result.bpm = Quantize(bpm)
       /\ result.kind = "NoValidBpm" <=> CanonicalCandidates = <<>>

====
